---- MODULE Spec2Model ----
(***************************************************************************)
(* A model of dabble-rest-client: the REST client factory createRestAPI,   *)
(* its hook pipeline and its request builder, in the two implementations   *)
(* the repository holds:                                                   *)
(*   "class"   - src/src/rest-client.ts (class RequestAPI)                 *)
(*   "closure" - src/unnamed/part_000   (newRequest closure)               *)
(* JavaScript arrays and Headers objects are reference values, so both     *)
(* live in heaps (arrays, headers) and the program's variables hold ids.   *)
(* An action is one synchronous run of JavaScript: from a call to the next *)
(* await (or return).                                                      *)
(***************************************************************************)
EXTENDS Integers, Sequences, FiniteSets

\* ---------------------------------------------------------------- bounds
MaxHooks == 2       \* longest hook array
MaxArrays == 3      \* hook arrays ever allocated (1 + unsubscribe calls)
NumBuilders == 2    \* builders ever created from the client
MaxSends == 2       \* send calls per builder

Builders == 1..NumBuilders
Impls == {"class", "closure"}
HookFns == {"f", "g"}

VARIABLES
  impl,      \* which implementation the client comes from
  hooks,     \* the client's `hooks` variable: id of an array in `arrays`
  arrays,    \* heap of hook arrays: sequence of sequences of hook functions
  handles,   \* f |-> whether the unsubscribe closure the first hook(f) returned has been called
  headers,   \* heap of header collections, id 1 is the client's own
  builders,  \* builder id -> the builder's fields
  sends,     \* builder id -> the state of the send call on it
  late,      \* builder id -> hooks registered after it was created and not unsubscribed since
  baseUrl,   \* the URL given to createRestAPI
  defaults   \* the headers given to createRestAPI

vars == <<impl, hooks, arrays, handles, headers, builders, sends, late, baseUrl, defaults>>

\* ------------------------------------------------------- JavaScript values
\* A value is a record [t, v]: t its type tag, v what tells values of the type apart.
Undefined == [t |-> "undefined", v |-> ""]
Null == [t |-> "null", v |-> ""]
Str(s) == [t |-> "string", v |-> s]
Obj(json) == [t |-> "object", v |-> json]   \* a plain object, named by its JSON text
Num(n) == [t |-> "number", v |-> n]
Bool(b) == [t |-> "boolean", v |-> b]
Blob(type) == [t |-> "blob", v |-> type]    \* a Blob, v its type
BlobArray(type) == [t |-> "blobs", v |-> type]  \* a non-empty array of Blobs, v the blobs' type
FormData == [t |-> "formdata", v |-> ""]

\* JavaScript truthiness (ToBoolean)
Truthy(x) ==
  ~ \/ x.t \in {"undefined", "null"}
    \/ x = Str("")
    \/ x = Num("0")
    \/ x = Bool("false")

JSONstringify(x) ==
  CASE x.t = "object" -> Str(x.v)
    [] x.t = "number" -> Str(x.v)
    [] x.t = "boolean" -> Str(x.v)
    [] x.t = "null" -> Str("null")
    [] OTHER -> x

isBlobArray(x) == x.t = "blobs"

Multipart(boundary) == [t |-> "multipart", v |-> boundary]  \* the Blob body() builds from a Blob array

isJsonable(x) == Truthy(x) /\ x.t \notin {"string", "blob", "multipart", "formdata"}

\* ------------------------------------------------------------ Headers
\* A Headers object is a function from lower-cased names to values.
LowerName(k) ==
  CASE k = "Content-Type" -> "content-type"
    [] k = "Accept" -> "accept"
    [] k = "X-Token" -> "x-token"
    [] OTHER -> k

HeadersHas(h, k) == LowerName(k) \in DOMAIN h

HeadersGet(h, k) == IF HeadersHas(h, k) THEN Str(h[LowerName(k)]) ELSE Null

HeadersSet(h, k, val) ==
  [n \in DOMAIN h \cup {LowerName(k)} |-> IF n = LowerName(k) THEN val ELSE h[n]]

NoHeaders == [n \in {} |-> ""]

\* ------------------------------------------------------------ strings, URLs
\* A URL or path is a sequence of one-character strings.
Includes2(s, c) == \E i \in 1..(Len(s) - 1) : s[i] = c /\ s[i + 1] = c

\* url.replace(/\/$/, ''): drops one trailing slash
StripTrailingSlash(s) ==
  IF Len(s) > 0 /\ s[Len(s)] = "/" THEN SubSeq(s, 1, Len(s) - 1) ELSE s

getUrl(base, path) ==
  IF Includes2(path, "/") THEN path
  ELSE IF Len(path) = 0 \/ path[1] # "/" THEN base \o <<"/">> \o path
  ELSE base \o path

\* The WHATWG URL parser of `new URL(path, base)`, for http URLs without
\* query, fragment, dot segments or backslashes.
FirstIndex(s, c, from) ==
  IF \E i \in from..Len(s) : s[i] = c
  THEN CHOOSE i \in from..Len(s) : s[i] = c /\ \A j \in from..(i - 1) : s[j] # c
  ELSE 0

HasScheme(s) ==
  LET i == FirstIndex(s, ":", 1) IN i > 1 /\ FirstIndex(s, "/", 1) \notin 1..i

\* an absolute http URL with its empty path made "/"
UrlNormalize(s) ==
  LET a == FirstIndex(s, ":", 1) + 3 IN
  IF FirstIndex(s, "/", a) = 0 THEN s \o <<"/">> ELSE s

UrlScheme(s) == SubSeq(s, 1, FirstIndex(s, ":", 1))

UrlOrigin(s) ==
  LET n == UrlNormalize(s) IN SubSeq(n, 1, FirstIndex(n, "/", FirstIndex(n, ":", 1) + 3) - 1)

UrlPath(s) ==
  LET n == UrlNormalize(s) IN SubSeq(n, FirstIndex(n, "/", FirstIndex(n, ":", 1) + 3), Len(n))

LastSlash(s) == CHOOSE i \in 1..Len(s) : s[i] = "/" /\ \A j \in (i + 1)..Len(s) : s[j] # "/"

NewURL(path, base) ==
  IF Len(path) = 0 THEN UrlNormalize(base)
  ELSE IF HasScheme(path) THEN UrlNormalize(path)
  ELSE IF Len(path) >= 2 /\ path[1] = "/" /\ path[2] = "/" THEN UrlNormalize(UrlScheme(base) \o path)
  ELSE IF Len(path) >= 1 /\ path[1] = "/" THEN UrlOrigin(base) \o path
  ELSE UrlOrigin(base) \o SubSeq(UrlPath(base), 1, LastSlash(UrlPath(base))) \o path

BaseUrls == { <<"h", "t", "t", "p", ":", "/", "/", "h", "/">> }
Paths == { <<"/", "u">> }
Methods == {"GET", "POST"}
DefaultHeaders == { NoHeaders, [n \in {"content-type"} |-> "text/plain"] }
Boundaries == {"Ab"}

\* 'multipart/related; boundary=' + boundary
MultipartType(boundary) ==
  CASE boundary = "Ab" -> "multipart/related; boundary=Ab"
    [] boundary = "Cd" -> "multipart/related; boundary=Cd"
    [] OTHER -> "multipart/related; boundary="

\* ------------------------------------------------------------ the builder
NoInit == [method |-> "", hdr |-> 0, body |-> Undefined, credentials |-> Undefined]

NoRequest ==
  [method |-> "", url |-> <<>>, query |-> NoHeaders, headers |-> NoHeaders,
   body |-> Undefined, credentials |-> Undefined]

NoResponse == [status |-> 0, text |-> ""]
NoResult == [kind |-> "", code |-> 0, value |-> Undefined]

NoSend ==
  [pc |-> "idle", n |-> 0, arr |-> 0, idx |-> 0, init |-> NoInit, ran |-> <<>>,
   changed |-> FALSE, removedAt |-> 0, made |-> {}, touched |-> FALSE, cfg |-> NoRequest, req |-> NoRequest, resp |-> NoResponse,
   result |-> NoResult]

\* (mutant) the Headers object itself is handed on, not a copy of it
SharedHeaders(heap, src) == [heap |-> heap, id |-> src]

\* new Headers(init): a fresh Headers object holding init's entries
NewHeaders(heap, src) == [heap |-> Append(heap, heap[src]), id |-> Len(heap) + 1]

\* RequestAPI.body of the class: the headers and body it leaves
bodyClass(h, payload, boundary) ==
  IF isBlobArray(payload)
  THEN [headers |-> HeadersSet(h, "Content-Type", MultipartType(boundary)),
        body |-> Multipart(boundary)]
  ELSE IF isJsonable(payload)
  THEN [headers |-> IF ~Truthy(HeadersGet(h, "Content-Type"))
                    THEN HeadersSet(h, "Content-Type", "application/json")
                    ELSE h,
        body |-> JSONstringify(payload)]
  ELSE [headers |-> h, body |-> payload]

\* requestAPI.body of the closure
bodyClosure(h, payload, boundary) ==
  IF isBlobArray(payload)
  THEN [headers |-> HeadersSet(h, "Content-Type", MultipartType(boundary)),
        body |-> Multipart(boundary)]
  ELSE IF isJsonable(payload)
  THEN IF ~HeadersHas(h, "Content-Type")
       THEN [headers |-> HeadersSet(h, "Content-Type", "application/json"),
             body |-> JSONstringify(payload)]
       ELSE [headers |-> h, body |-> payload]
  ELSE [headers |-> h, body |-> payload]

bodyOf(h, payload, boundary) ==
  IF impl = "class" THEN bodyClass(h, payload, boundary) ELSE bodyClosure(h, payload, boundary)

\* ------------------------------------------------------------ createRestAPI
Init ==
  /\ impl \in Impls
  /\ baseUrl \in BaseUrls
  /\ defaults \in DefaultHeaders
  /\ hooks = 1
  /\ arrays = << <<>> >>
  /\ handles = [f \in {} |-> FALSE]
  /\ headers = << IF impl = "class" THEN defaults
                  ELSE HeadersSet(defaults, "Accept", "application/json") >>
  /\ builders = [b \in {} |-> {}]
  /\ sends = [b \in {} |-> NoSend]
  /\ late = [b \in {} |-> {}]

\* the builder b has been created
Made(b) == b \in DOMAIN builders

\* the send on b is suspended, awaiting a hook
InFlight(b) == sends[b].pc = "hook"

\* f extended (or overwritten) at x with y
Put(f, x, y) == [z \in DOMAIN f \cup {x} |-> IF z = x THEN y ELSE f[z]]

\* api.hook(f): hooks.push(f), and the unsubscribe closure is returned
hook(f) ==
  /\ Len(arrays[hooks]) < MaxHooks
  /\ arrays' = [arrays EXCEPT ![hooks] = Append(@, f)]
  /\ handles' = IF f \in DOMAIN handles THEN handles ELSE Put(handles, f, FALSE)
  /\ late' = [b \in DOMAIN late |-> late[b] \cup {f}]
  /\ sends' = [b \in DOMAIN sends |-> IF InFlight(b) THEN [sends[b] EXCEPT !.changed = TRUE] ELSE sends[b]]
  /\ UNCHANGED <<impl, hooks, headers, builders, baseUrl, defaults>>

\* hooks.filter(h => h === hook)
FilterHooks(list, f) == SelectSeq(list, LAMBDA h : h = f)

\* an unsubscribe call seen from a send: a suspended send notes it, and where it stood
NoteRemoval(s) ==
  IF s.pc = "hook"
  THEN [s EXCEPT !.changed = TRUE, !.removedAt = IF @ = 0 THEN s.idx ELSE @]
  ELSE s

\* (mutant) the hook array itself is filtered, where it is
unsubscribeInPlace(f) ==
  /\ f \in DOMAIN handles
  /\ Len(arrays) < MaxArrays
  /\ arrays' = [arrays EXCEPT ![hooks] = FilterHooks(@, f)]
  /\ handles' = [handles EXCEPT ![f] = TRUE]
  /\ late' = [b \in DOMAIN late |-> late[b] \ {f}]
  /\ sends' = [b \in DOMAIN sends |-> NoteRemoval(sends[b])]
  /\ UNCHANGED <<impl, hooks, headers, builders, baseUrl, defaults>>

\* the closure hook(f) returned: hooks = hooks.filter(...)
unsubscribe(f) ==
  /\ f \in DOMAIN handles
  /\ Len(arrays) < MaxArrays
  /\ arrays' = Append(arrays, FilterHooks(arrays[hooks], f))
  /\ hooks' = Len(arrays) + 1
  /\ handles' = [handles EXCEPT ![f] = TRUE]
  /\ late' = [b \in DOMAIN late |-> late[b] \ {f}]
  /\ sends' = [b \in DOMAIN sends |-> NoteRemoval(sends[b])]
  /\ UNCHANGED <<impl, headers, builders, baseUrl, defaults>>

\* api.get(path), api.post(path), ...: the builder b is created
accessor(b, method, path) ==
  /\ ~Made(b)
  /\ \A a \in Builders : a < b => Made(a)
  /\ LET fresh == NewHeaders(headers, 1) IN
     /\ headers' = IF impl = "class"
                    THEN [fresh.heap EXCEPT ![fresh.id] = HeadersSet(@, "Accept", "application/json")]
                    ELSE fresh.heap
     /\ builders' = Put(builders, b,
          [method |-> method,
           url |-> IF impl = "class" THEN NewURL(path, baseUrl)
                   ELSE getUrl(StripTrailingSlash(baseUrl), path),
           query |-> NoHeaders, hdr |-> fresh.id, body |-> Undefined,
           credentials |-> Undefined,
           hooks |-> IF impl = "class" THEN hooks ELSE 0])
  /\ late' = Put(late, b, {})
  /\ sends' = Put(sends, b, NoSend)
  /\ UNCHANGED <<impl, hooks, arrays, handles, baseUrl, defaults>>

\* ------------------------------------------------------------ configuration
Touch(b) == [sends EXCEPT ![b].touched = @ \/ InFlight(b)]

\* value || ''
OrEmpty(value) == IF Truthy(value) THEN value.v ELSE ""

\* header(key, value) with a string key
header(b, key, value) ==
  /\ Made(b)
  /\ headers' = IF impl = "class" /\ value = Undefined
                THEN headers
                ELSE [headers EXCEPT ![builders[b].hdr] = HeadersSet(@, key, OrEmpty(value))]
  /\ sends' = Touch(b)
  /\ UNCHANGED <<impl, hooks, arrays, handles, builders, late, baseUrl, defaults>>

\* for (const [name, value] of Object.entries(map)) set(name, value)
SetAll(h, map) ==
  [n \in DOMAIN h \cup {LowerName(k) : k \in DOMAIN map} |->
     IF \E k \in DOMAIN map : LowerName(k) = n
     THEN map[CHOOSE k \in DOMAIN map : LowerName(k) = n]
     ELSE h[n]]

\* header(map)
headerMap(b, map) ==
  /\ Made(b)
  /\ headers' = [headers EXCEPT ![builders[b].hdr] = SetAll(@, map)]
  /\ sends' = Touch(b)
  /\ UNCHANGED <<impl, hooks, arrays, handles, builders, late, baseUrl, defaults>>

\* searchParams.set(name, value) for every entry of map
ParamsSetAll(q, map) ==
  [n \in DOMAIN q \cup DOMAIN map |-> IF n \in DOMAIN map THEN map[n] ELSE q[n]]

\* query(key, value) with a string key
query(b, key, value) ==
  /\ Made(b)
  /\ builders' = [builders EXCEPT ![b].query = ParamsSetAll(@, [n \in {key} |-> OrEmpty(value)])]
  /\ sends' = Touch(b)
  /\ UNCHANGED <<impl, hooks, arrays, handles, headers, late, baseUrl, defaults>>

\* query(map)
queryMap(b, map) ==
  /\ Made(b)
  /\ builders' = [builders EXCEPT ![b].query = ParamsSetAll(@, map)]
  /\ sends' = Touch(b)
  /\ UNCHANGED <<impl, hooks, arrays, handles, headers, late, baseUrl, defaults>>

\* credentials(value): a method of the class only
credentials(b, value) ==
  /\ impl = "class"
  /\ Made(b)
  /\ builders' = [builders EXCEPT ![b].credentials = value]
  /\ sends' = Touch(b)
  /\ UNCHANGED <<impl, hooks, arrays, handles, headers, late, baseUrl, defaults>>

\* body(payload); boundary is what createId(18) returns
body(b, payload, boundary) ==
  /\ Made(b)
  /\ LET res == bodyOf(headers[builders[b].hdr], payload, boundary) IN
     /\ headers' = [headers EXCEPT ![builders[b].hdr] = res.headers]
     /\ builders' = [builders EXCEPT ![b].body = res.body]
  /\ sends' = Touch(b)
  /\ UNCHANGED <<impl, hooks, arrays, handles, late, baseUrl, defaults>>

\* ------------------------------------------------------------ send
\* new Request(url, init), as the send s on builder bld builds it
RequestOf(s, bld, heap) ==
  IF impl = "class"
  THEN [method |-> bld.method, url |-> bld.url, query |-> bld.query,
        headers |-> heap[bld.hdr], body |-> bld.body, credentials |-> bld.credentials]
  ELSE [method |-> s.init.method, url |-> bld.url, query |-> NoHeaders,
        headers |-> heap[s.init.hdr], body |-> s.init.body,
        credentials |-> s.init.credentials]

\* the Request constructor throws a TypeError for a GET or HEAD request with a body
RequestThrows(r) == r.method \in {"GET", "HEAD"} /\ r.body.t \notin {"undefined", "null"}

TypeError == [kind |-> "throw", code |-> 0, value |-> Str("TypeError")]

\* the for-of loop over the hook array from where the send s stands: the next
\* hook is called and awaited, or the loop ends and the request is dispatched
RunHooks(s, bld, heap) ==
  IF s.idx < Len(arrays[s.arr])
  THEN [s EXCEPT !.pc = "hook", !.idx = @ + 1, !.ran = Append(@, arrays[s.arr][s.idx + 1])]
  ELSE IF RequestThrows(RequestOf(s, bld, heap))
  THEN [s EXCEPT !.pc = "done", !.n = @ + 1, !.result = TypeError]
  ELSE [s EXCEPT !.pc = "fetch", !.req = RequestOf(s, bld, heap)]

\* if (body !== undefined) in the class, if (payload) in the closure
SendCallsBody(payload) == IF impl = "class" THEN payload # Undefined ELSE Truthy(payload)

\* the hook array the loop of send iterates
HookArrayOf(bld) == IF impl = "class" THEN bld.hooks ELSE hooks

\* send(payload), up to its first await
send(b, payload, boundary) ==
  /\ Made(b)
  /\ sends[b].pc \in {"idle", "done"}
  /\ sends[b].n < MaxSends
  /\ LET bld == builders[b]
         res == IF SendCallsBody(payload)
                THEN bodyOf(headers[bld.hdr], payload, boundary)
                ELSE [headers |-> headers[bld.hdr], body |-> bld.body]
         heap1 == [headers EXCEPT ![bld.hdr] = res.headers]
         bld1 == [bld EXCEPT !.body = res.body]
         s0 == [NoSend EXCEPT
                  !.n = sends[b].n,
                  !.arr = HookArrayOf(bld),
                  !.init = IF impl = "class" THEN NoInit
                           ELSE [method |-> bld.method, hdr |-> bld.hdr, body |-> res.body,
                                 credentials |-> Str("include")],
                  !.cfg = [method |-> bld.method, url |-> bld.url, query |-> bld.query,
                           headers |-> res.headers, body |-> res.body,
                           credentials |-> bld.credentials]]
     IN /\ headers' = heap1
        /\ builders' = [builders EXCEPT ![b] = bld1]
        /\ sends' = [sends EXCEPT ![b] = RunHooks(s0, bld1, heap1)]
  /\ UNCHANGED <<impl, hooks, arrays, handles, late, baseUrl, defaults>>

\* the promise of the awaited hook settles and send goes on
hookSettles(b) ==
  /\ Made(b)
  /\ sends[b].pc = "hook"
  /\ sends' = [sends EXCEPT ![b] = RunHooks(sends[b], builders[b], headers)]
  /\ UNCHANGED <<impl, hooks, arrays, handles, headers, builders, late, baseUrl, defaults>>

\* ------------------------------------------------------------ what a hook does
\* The hook a send awaits works on what it was handed: the builder itself in
\* the class (hook(this)), the pair (url, init) in the closure (hook(url, init)).
\* made: the changes the hooks of this send have made, each with the place in
\* the loop of the hook that made it.

\* the request as the hooks of the send on b see it now, through what they were handed
Handed(b) == RequestOf(sends[b], builders[b], headers)

\* request.header(key, value) in the class, init.headers.set(key, value) in the closure
hookSetsHeader(b, key, value) ==
  /\ Made(b)
  /\ sends[b].pc = "hook"
  /\ headers' = [headers EXCEPT
                   ![IF impl = "class" THEN builders[b].hdr ELSE sends[b].init.hdr] =
                     HeadersSet(@, key, value)]
  /\ sends' = [sends EXCEPT ![b].made = @ \cup {[kind |-> "header", at |-> sends[b].idx]}]
  /\ UNCHANGED <<impl, hooks, arrays, handles, builders, late, baseUrl, defaults>>

\* request.init.body = text in the class, init.body = text in the closure
hookSetsBody(b, text) ==
  /\ Made(b)
  /\ sends[b].pc = "hook"
  /\ builders' = IF impl = "class" THEN [builders EXCEPT ![b].body = text] ELSE builders
  /\ sends' = [sends EXCEPT
                 ![b].made = @ \cup {[kind |-> "body", at |-> sends[b].idx]},
                 ![b].init.body = IF impl = "class" THEN @ ELSE text]
  /\ UNCHANGED <<impl, hooks, arrays, handles, headers, late, baseUrl, defaults>>

\* request.url = new URL(u) in the class; in the closure the hook has only its
\* own parameter to assign, url = u, a string the send does not read again
hookSetsUrl(b, u) ==
  /\ Made(b)
  /\ sends[b].pc = "hook"
  /\ builders' = IF impl = "class" THEN [builders EXCEPT ![b].url = UrlNormalize(u)] ELSE builders
  /\ sends' = [sends EXCEPT ![b].made = @ \cup {[kind |-> "url", at |-> sends[b].idx]}]
  /\ UNCHANGED <<impl, hooks, arrays, handles, headers, late, baseUrl, defaults>>

\* (mutant) the error of a hook is caught and the loop goes on
hookErrorCaught(b, err) ==
  /\ Made(b)
  /\ sends[b].pc = "hook"
  /\ sends' = [sends EXCEPT ![b] = RunHooks(sends[b], builders[b], headers)]
  /\ UNCHANGED <<impl, hooks, arrays, handles, headers, builders, late, baseUrl, defaults>>

\* the awaited hook threw, or its promise rejects: the await throws err out of send
hookRejects(b, err) ==
  /\ Made(b)
  /\ sends[b].pc = "hook"
  /\ sends' = [sends EXCEPT ![b] =
       [@ EXCEPT !.pc = "done", !.n = @ + 1, !.init = NoInit, !.cfg = NoRequest,
                 !.result = [kind |-> "throw", code |-> 0, value |-> err]]]
  /\ UNCHANGED <<impl, hooks, arrays, handles, headers, builders, late, baseUrl, defaults>>

\* ------------------------------------------------------------ the response
Statuses == {200, 204, 299, 300, 404, 500}

ResponseTexts ==
  {"", "oops", "null", "{}", "{\"error\":\"not found\"}", "{\"error\":\"\"}",
   "{\"error\":42}", "{\"error\":{}}", "\"msg\"", "\"\"", "5", "[]"}

\* JSON.parse(text): whether it returns, and the value it returns
JSONparse(text) ==
  CASE text = "null" -> [ok |-> TRUE, value |-> Null]
    [] text \in {"{}", "{\"error\":\"not found\"}", "{\"error\":\"\"}", "{\"error\":42}",
                 "{\"error\":{}}"}
         -> [ok |-> TRUE, value |-> Obj(text)]
    [] text = "\"msg\"" -> [ok |-> TRUE, value |-> Str("msg")]
    [] text = "\"\"" -> [ok |-> TRUE, value |-> Str("")]
    [] text = "5" -> [ok |-> TRUE, value |-> Num("5")]
    [] text = "[]" -> [ok |-> TRUE, value |-> [t |-> "array", v |-> "[]"]]
    [] OTHER -> [ok |-> FALSE, value |-> Undefined]

\* (mutant) data?.error: the property read never throws
PropertyNeverThrows(data) == FALSE

\* data.error: the property read throws on null and undefined
PropertyThrows(data) == data.t \in {"null", "undefined"}

ErrorField(data) ==
  CASE data = Obj("{\"error\":\"not found\"}") -> Str("not found")
    [] data = Obj("{\"error\":\"\"}") -> Str("")
    [] data = Obj("{\"error\":42}") -> Num("42")
    [] data = Obj("{\"error\":{}}") -> Obj("{}")
    [] OTHER -> Undefined

\* String(x), which the Error constructor applies to its message
JsString(x) ==
  CASE x.t \in {"string", "number", "boolean"} -> x.v
    [] x.t = "null" -> "null"
    [] x.t = "undefined" -> "undefined"
    [] x.t = "array" -> ""
    [] OTHER -> "[object Object]"

\* (mutant) let data; without the null it starts from
ParsedDataUndefined(text) == IF JSONparse(text).ok THEN JSONparse(text).value ELSE Undefined

\* let data = null; try { data = JSON.parse(text) } catch (e) {}
ParsedData(text) == IF JSONparse(text).ok THEN JSONparse(text).value ELSE Null

\* response.ok
ResponseOk(status) == status >= 200 /\ status <= 299

\* (mutant) the error field of the parsed body is not read
ErrorTextIgnoresField(data, text) ==
  IF PropertyThrows(data) THEN Str(text)
  ELSE IF data.t = "string" THEN data
  ELSE Str("Unknown error")

\* (mutant) the catch block falls back to the constant message
ErrorTextFallback(data, text) ==
  IF PropertyThrows(data) THEN Str("Unknown error")
  ELSE IF Truthy(ErrorField(data)) THEN ErrorField(data)
  ELSE IF data.t = "string" THEN data
  ELSE Str("Unknown error")

\* try { text = data.error || (typeof data === 'string' ? data : 'Unknown error') } catch (e) {}
ErrorText(data, text) ==
  IF PropertyThrows(data) THEN Str(text)
  ELSE IF Truthy(ErrorField(data)) THEN ErrorField(data)
  ELSE IF data.t = "string" THEN data
  ELSE Str("Unknown error")

\* what send returns or throws for a response
Outcome(status, text) ==
  IF ResponseOk(status)
  THEN [kind |-> "return", code |-> status, value |-> ParsedData(text)]
  ELSE [kind |-> "throw", code |-> status,
        value |-> Str(JsString(ErrorText(ParsedData(text), text)))]

\* fetch resolves with a response, whose text is read, and send ends
respond(b, status, text) ==
  /\ Made(b)
  /\ sends[b].pc = "fetch"
  /\ sends' = [sends EXCEPT ![b] =
       [@ EXCEPT !.pc = "done", !.n = @ + 1,
                 !.init = NoInit, !.cfg = NoRequest, !.req = NoRequest,
                 !.resp = [status |-> status, text |-> text],
                 !.result = Outcome(status, text)]]
  /\ UNCHANGED <<impl, hooks, arrays, handles, headers, builders, late, baseUrl, defaults>>

\* ------------------------------------------------------------ specifications
\* The hook pipeline: registration, unsubscription, builders and their sends.
Next ==
  \/ \E f \in HookFns : hook(f)
  \/ \E f \in HookFns : unsubscribe(f)
  \/ accessor(1, "GET", <<"/", "u">>)
  \/ send(1, Undefined, "Ab")
  \/ hookSettles(1)
  \/ respond(1, 200, "{}")

Spec == Init /\ [][Next]_vars

\* Builders side by side: header() and body() calls on several builders of one client.
HeaderKeys == {"Content-Type"}
HeaderValues == {Undefined, Str(""), Str("text/plain")}
HeaderMaps == { [k \in {"X-Token"} |-> "1"] }
Payloads == {Obj("{}"), BlobArray("image/png")}

HeaderCall(b) ==
  \/ \E k \in HeaderKeys, v \in HeaderValues : header(b, k, v)
  \/ \E m \in HeaderMaps : headerMap(b, m)

BodyCall(b) == \E p \in Payloads, bd \in Boundaries : body(b, p, bd)

Create(b) == \E p \in Paths : accessor(b, "POST", p)

NextFrame ==
  \/ \E b \in Builders : Create(b)
  \/ \E b \in Builders : HeaderCall(b)
  \/ \E b \in Builders : BodyCall(b)

SpecFrame == Init /\ [][NextFrame]_vars

\* One builder configured and sent, with configuration calls between the
\* steps of a send.
SendPayloads == {Undefined, Str("s"), Obj("{\"a\":1}")}

Configure(b) ==
  \/ header(b, "X-Token", Str("1"))
  \/ query(b, "id", Str("1"))
  \/ queryMap(b, [k \in {"id"} |-> "2"])
  \/ body(b, Obj("{}"), "Ab")
  \/ credentials(b, Str("omit"))

NextSend ==
  \/ \E m \in Methods, p \in Paths : accessor(1, m, p)
  \/ hook("f")
  \/ Configure(1)
  \/ \E p \in SendPayloads : send(1, p, "Ab")
  \/ hookSettles(1)
  \/ respond(1, 200, "{}")

SpecSend == Init /\ [][NextSend]_vars

\* Sends answered by every response: status and body text.
NextResp ==
  \/ \E m \in Methods, p \in Paths : accessor(1, m, p)
  \/ send(1, Undefined, "Ab")
  \/ \E status \in Statuses, text \in ResponseTexts : respond(1, status, text)

SpecResp == Init /\ [][NextResp]_vars

\* Hooks at work: they change the request they are handed, and they fail.
HookHeader == "X-Token"
HookBody == Str("s")
HookUrl == <<"h", "t", "t", "p", ":", "/", "/", "h", "/", "v">>
HookErrors == {Str("boom")}

NextHook ==
  \/ \E f \in HookFns : hook(f)
  \/ accessor(1, "POST", <<"/", "u">>)
  \/ send(1, Undefined, "Ab")
  \/ hookSetsHeader(1, HookHeader, "1")
  \/ hookSetsBody(1, HookBody)
  \/ hookSetsUrl(1, HookUrl)
  \/ hookSettles(1)
  \/ \E err \in HookErrors : hookRejects(1, err)
  \/ respond(1, 200, "{}")

SpecHook == Init /\ [][NextHook]_vars

\* Payloads of every kind, given to body() and to send().
BodyPayloads ==
  { Null, Str(""), Num("0"), Bool("false"), Str("s"), Num("5"),
    Obj("{\"a\":1}"), BlobArray("image/png") }

BodyBoundaries == {"Ab", "Cd"}

NextBody ==
  \/ accessor(1, "POST", <<"/", "u">>)
  \/ \E x \in BodyPayloads, bd \in BodyBoundaries : body(1, x, bd)
  \/ \E x \in BodyPayloads \cup {Undefined}, bd \in BodyBoundaries : send(1, x, bd)
  \/ respond(1, 200, "{}")

SpecBody == Init /\ [][NextBody]_vars

\* Builders created from every base URL and every kind of path.
Http == <<"h", "t", "t", "p", ":", "/", "/">>

UrlBases ==
  { Http \o <<"h">>, Http \o <<"h", "/">>, Http \o <<"h", "/", "/">>,
    Http \o <<"h", "/", "a">>, Http \o <<"h", "/", "a", "/">> }

UrlPaths ==
  { <<"u">>, <<"/", "u">>,
    <<"/", "a", "/", "/", "b">>, <<"/", "/", "x", "/", "u">>, Http \o <<"x", "/", "u">> }

\* createRestAPI(baseUrl, headers) called with one of UrlBases
InitUrl ==
  /\ impl \in Impls
  /\ baseUrl \in UrlBases
  /\ defaults \in DefaultHeaders
  /\ hooks = 1
  /\ arrays = << <<>> >>
  /\ handles = [f \in {} |-> FALSE]
  /\ headers = << IF impl = "class" THEN defaults
                  ELSE HeadersSet(defaults, "Accept", "application/json") >>
  /\ builders = [b \in {} |-> {}]
  /\ sends = [b \in {} |-> NoSend]
  /\ late = [b \in {} |-> {}]

NextUrl == \E b \in Builders, m \in Methods, p \in UrlPaths : accessor(b, m, p)

SpecUrl == InitUrl /\ [][NextUrl]_vars

\* ------------------------------------------------------------ the claims
Range(seq) == {seq[i] : i \in 1..Len(seq)}

\* the list without every occurrence of f
WithoutHook(list, f) == SelectSeq(list, LAMBDA h : h # f)

\* the step in which the send on b hands its request to fetch
Dispatches(b) == sends[b].pc # "fetch" /\ sends'[b].pc = "fetch"

\* C1: calling the unsubscribe function hook(f) returned leaves the client's
\* hook list equal to the list before the call with f removed, every other
\* hook still there in its order.
C1_UnsubscribeRemovesOnlyF ==
  [][\A f \in HookFns : unsubscribe(f) => arrays'[hooks'] = WithoutHook(arrays[hooks], f)]_vars

\* C2: a send during which no hook is registered or unsubscribed has run, when
\* it dispatches its request, exactly the hooks of the client's hook list, each
\* once and in registration order.
C2_SendRunsRegisteredHooks ==
  [][\A b \in DOMAIN sends :
       Dispatches(b) /\ ~sends'[b].changed => sends'[b].ran = arrays[hooks]]_vars

\* C3: a hook registered on the client after the builder was created, and not
\* unsubscribed since, has been run by a later send on that builder when the
\* send dispatches its request.
C3_LateHooksRun ==
  [][\A b \in DOMAIN sends :
       Dispatches(b) /\ ~sends'[b].changed => late[b] \subseteq Range(sends'[b].ran)]_vars

\* C6: a header() or body() call on one builder changes neither the client's
\* default headers nor the headers of any other builder, and a builder created
\* later starts from the client's defaults plus Accept: application/json.
C6_HeadersNotShared ==
  /\ [][\A a \in DOMAIN builders :
          \/ /\ headers'[1] = headers[1]
             /\ \A b \in DOMAIN builders \ {a} :
                   headers'[builders[b].hdr] = headers[builders[b].hdr]
          \/ ~(HeaderCall(a) \/ BodyCall(a))]_vars
  /\ [][\A b \in Builders : Create(b) =>
          headers'[builders'[b].hdr] = HeadersSet(defaults, "Accept", "application/json")]_vars

\* C6 witness: a header set on the first builder is on neither the second
\* builder nor the client's defaults.
C6_Witness ==
  /\ Made(1) /\ Made(2)
  /\ HeadersHas(headers[builders[1].hdr], "X-Token")
  /\ ~HeadersHas(headers[builders[2].hdr], "X-Token")
  /\ ~HeadersHas(headers[1], "X-Token")

\* C7: body(x) with a JSON-able x leaves a Content-Type header that is present
\* as it is, and sets application/json when none is present.
C7_JsonBodyContentType ==
  [][\A b \in DOMAIN builders : \A p \in Payloads, bd \in Boundaries :
        body(b, p, bd) /\ isJsonable(p) /\ ~isBlobArray(p) =>
          LET old == headers[builders[b].hdr]
              new == headers'[builders[b].hdr]
          IN IF HeadersHas(old, "Content-Type")
             THEN HeadersGet(new, "Content-Type") = HeadersGet(old, "Content-Type")
             ELSE HeadersGet(new, "Content-Type") = Str("application/json")]_vars

\* the method, URL (with its query parameters), headers and body of a request
Carried(r) ==
  [method |-> r.method, url |-> r.url, query |-> r.query, headers |-> r.headers,
   body |-> r.body]

\* C4: the request a send hands to fetch carries the configuration the builder
\* had when send was called: method, URL with every query parameter, headers, body.
C4_RequestCarriesConfiguration ==
  \A b \in DOMAIN sends :
    sends[b].pc = "fetch" /\ ~sends[b].touched =>
      Carried(sends[b].req) = Carried(sends[b].cfg)

\* C5: while a send is suspended awaiting a hook, no call on the builder
\* changes the method, URL, headers or body of the request the send will dispatch.
C5_InFlightRequestFrozen ==
  [][\A b \in DOMAIN sends :
       InFlight(b) /\ sends'[b].pc = "hook" =>
         Carried(RequestOf(sends'[b], builders'[b], headers')) =
           Carried(RequestOf(sends[b], builders[b], headers))]_vars

\* the send on b has ended on a response whose status is outside 200-299
Failed(b) ==
  /\ sends[b].pc = "done"
  /\ sends[b].resp.status # 0
  /\ (sends[b].resp.status < 200 \/ sends[b].resp.status > 299)

\* the send on b threw a RestError with the status of its response as code
ThrewStatus(b) ==
  sends[b].result.kind = "throw" /\ sends[b].result.code = sends[b].resp.status

\* C8: on a response with a status outside 200-299 send returns no value: it
\* throws a RestError whose code is the status, and whose message is the error
\* field of the body when the body parses to an object with a non-empty one
\* (the field itself when it is a string, its string conversion otherwise).
C8_NonSuccessThrows ==
  \A b \in DOMAIN sends :
    Failed(b) =>
      /\ ThrewStatus(b)
      /\ LET parsed == JSONparse(sends[b].resp.text) IN
           parsed.ok /\ parsed.value.t = "object"
             /\ ErrorField(parsed.value) \notin {Undefined, Null, Str("")} =>
               sends[b].result.value =
                 IF ErrorField(parsed.value).t = "string"
                 THEN ErrorField(parsed.value)
                 ELSE Str(JsString(ErrorField(parsed.value)))

\* C8 witness: status 404 with body {"error":"not found"} threw code 404, "not found".
C8_Witness ==
  \E b \in DOMAIN sends :
    /\ sends[b].pc = "done"
    /\ sends[b].resp = [status |-> 404, text |-> "{\"error\":\"not found\"}"]
    /\ sends[b].result = [kind |-> "throw", code |-> 404, value |-> Str("not found")]

\* C9: on a non-success response whose body text does not parse as JSON, send
\* throws a RestError whose code is the status and whose message is the body text.
C9_UnparseableBodyIsMessage ==
  \A b \in DOMAIN sends :
    Failed(b) /\ ~JSONparse(sends[b].resp.text).ok =>
      ThrewStatus(b) /\ sends[b].result.value = Str(sends[b].resp.text)

\* C9 witness: status 500 with body oops threw code 500, "oops".
C9_Witness ==
  \E b \in DOMAIN sends :
    /\ sends[b].pc = "done"
    /\ sends[b].resp = [status |-> 500, text |-> "oops"]
    /\ sends[b].result = [kind |-> "throw", code |-> 500, value |-> Str("oops")]

\* the parsed value of the response of b is null: the body was empty, did not
\* parse, or was the JSON literal null
ParsedNull(b) ==
  \/ ~JSONparse(sends[b].resp.text).ok
  \/ JSONparse(sends[b].resp.text).value = Null

\* C10 (as claimed): on a non-success response whose parsed value is null, the
\* RestError's message is the constant "Unknown error".
C10_NullDataUnknownError ==
  \A b \in DOMAIN sends :
    Failed(b) /\ ParsedNull(b) =>
      ThrewStatus(b) /\ sends[b].result.value = Str("Unknown error")

\* C10 (amended): on a non-success response whose parsed value is null, the
\* exception of the message extraction is swallowed and the RestError's message
\* is the response's body text as received.
C10_NullDataKeepsBodyText ==
  \A b \in DOMAIN sends :
    Failed(b) /\ ParsedNull(b) =>
      ThrewStatus(b) /\ sends[b].result.value = Str(sends[b].resp.text)

\* C10 witness: status 500 with the JSON literal null as body threw "null".
C10_Witness ==
  \E b \in DOMAIN sends :
    /\ sends[b].pc = "done"
    /\ sends[b].resp = [status |-> 500, text |-> "null"]
    /\ sends[b].result = [kind |-> "throw", code |-> 500, value |-> Str("null")]

\* the send on b has ended on a response whose status is in 200-299
Succeeded(b) ==
  /\ sends[b].pc = "done"
  /\ sends[b].resp.status >= 200 /\ sends[b].resp.status <= 299

\* C11: on a response with a status in 200-299 send throws nothing: it returns
\* the parsed JSON value when the body parses, and null when the body is empty
\* or does not parse.
C11_SuccessReturnsParsedOrNull ==
  \A b \in DOMAIN sends :
    Succeeded(b) =>
      /\ sends[b].result.kind = "return"
      /\ sends[b].result.value =
           IF JSONparse(sends[b].resp.text).ok
           THEN JSONparse(sends[b].resp.text).value
           ELSE Null

\* C11 witness: status 204 with an empty body returned null.
C11_Witness ==
  \E b \in DOMAIN sends :
    /\ sends[b].pc = "done"
    /\ sends[b].resp = [status |-> 204, text |-> ""]
    /\ sends[b].result = [kind |-> "return", code |-> 204, value |-> Null]

\* s without its trailing slashes
RECURSIVE StripTrailingSlashes(_)
StripTrailingSlashes(s) ==
  IF Len(s) > 0 /\ s[Len(s)] = "/" THEN StripTrailingSlashes(SubSeq(s, 1, Len(s) - 1)) ELSE s

\* base followed by p, one slash between them
JoinedWithOneSlash(base, p) ==
  StripTrailingSlashes(base) \o <<"/">> \o
    (IF Len(p) > 0 /\ p[1] = "/" THEN SubSeq(p, 2, Len(p)) ELSE p)

\* C12: for a path p that does not contain //, the URL an accessor binds to
\* the builder is the base URL followed by p with exactly one slash between
\* them, whether or not p starts with a slash, and whether or not the base ends
\* with slashes or has a path component.
C12_PathJoinedWithOneSlash ==
  [][\A b \in Builders, m \in Methods, p \in UrlPaths :
       accessor(b, m, p) /\ ~Includes2(p, "/")
         => builders'[b].url = JoinedWithOneSlash(baseUrl, p)]_vars

\* C13: for a path that contains //, the URL an accessor binds to the builder
\* is that path unchanged, with nothing of the base URL before it.
C13_DoubleSlashPathVerbatim ==
  [][\A b \in Builders, m \in Methods, p \in UrlPaths :
       accessor(b, m, p) /\ Includes2(p, "/") => builders'[b].url = p]_vars

\* the unsubscribe closure hook(f) returned has been called before
CalledBefore(f) == f \in DOMAIN handles /\ handles[f]

\* C14: calling the unsubscribe function hook(f) returned once more, after it
\* has been called, leaves the client's hook list as it was, whatever was
\* registered between the two calls.
C14_SecondUnsubscribeIsNoOp ==
  [][\A f \in HookFns :
       CalledBefore(f) /\ unsubscribe(f) => arrays'[hooks'] = arrays[hooks]]_vars

\* the hooks the suspended send on b has still to run, in the order it will run them
Remaining(b) ==
  SubSeq(arrays[sends[b].arr], sends[b].idx + 1, Len(arrays[sends[b].arr]))

\* C15: an unsubscribe call made while a send is suspended awaiting a hook
\* leaves that send the hooks it had still to run, in their order, and the send
\* has run, when it dispatches, the hooks of the list it iterated, each once and
\* in the order of that list.
C15_RemovalKeepsRunningIteration ==
  [][\A b \in DOMAIN sends :
       /\ \A f \in HookFns :
            InFlight(b) /\ unsubscribe(f)
              => /\ sends'[b].arr = sends[b].arr
                 /\ sends'[b].idx = sends[b].idx
                 /\ arrays'[sends'[b].arr] = arrays[sends[b].arr]
       /\ Dispatches(b) /\ sends'[b].removedAt > 0
            => sends'[b].ran = arrays'[sends'[b].arr]]_vars

\* C15 witness: a send dispatched after running two hooks, with an unsubscribe
\* call made while it awaited the first of them.
C15_Witness ==
  \E b \in DOMAIN sends :
    /\ sends[b].pc = "fetch"
    /\ sends[b].removedAt = 1
    /\ Len(sends[b].ran) = 2
    /\ hooks # sends[b].arr

\* the kinds of change made in the send on b by the hooks before the n-th
MadeBefore(b, n) == {m.kind : m \in {x \in sends[b].made : x.at < n}}

\* the request r shows the changes of the kinds given
Reflects(kinds, r) ==
  /\ "header" \in kinds => HeadersGet(r.headers, HookHeader) = Str("1")
  /\ "body" \in kinds => r.body = HookBody
  /\ "url" \in kinds => r.url = HookUrl

\* C16: a change a hook of a send has made to the headers, the body or the URL
\* of the request shows in the request as every later hook of that send sees
\* it, and in the request the send dispatches.
C16_HookChangesCarried ==
  \A b \in DOMAIN sends :
    /\ sends[b].pc = "hook" => Reflects(MadeBefore(b, sends[b].idx), Handed(b))
    /\ sends[b].pc = "fetch" => Reflects(MadeBefore(b, sends[b].idx + 1), sends[b].req)

\* the send on b ended because a hook failed
HookFailed(b) == sends[b].pc = "done" /\ sends[b].result.kind = "throw" /\ sends[b].result.value \in HookErrors

\* C19: when a hook of a send throws or rejects with an error, the send ends
\* there, throwing that error: no further hook has been invoked and no request
\* built or dispatched; and nothing of that send happens afterwards.
C19_HookErrorEndsSend ==
  [][\A b \in DOMAIN sends :
       /\ \A err \in HookErrors :
            hookRejects(b, err)
              => /\ sends'[b].pc = "done"
                 /\ sends'[b].result = [kind |-> "throw", code |-> 0, value |-> err]
                 /\ sends'[b].ran = sends[b].ran
                 /\ sends'[b].req = NoRequest /\ sends'[b].resp = NoResponse
       /\ HookFailed(b) /\ sends'[b] # sends[b]
            => sends'[b].n = sends[b].n /\ sends'[b].idx <= 1 /\ sends'[b].made = {}]_vars

\* C19 witness: a send over two hooks ended with the error of the first, the
\* second never invoked and no response received.
C19_Witness ==
  \E b \in DOMAIN sends :
    /\ HookFailed(b)
    /\ Len(arrays[sends[b].arr]) = 2
    /\ Len(sends[b].ran) = 1
    /\ sends[b].resp = NoResponse

\* body() takes x down its JSON path: x is no Blob array and isJsonable(x)
JsonPath(x) == ~isBlobArray(x) /\ isJsonable(x)

\* the request send() builds when called on b right after body(x), no hook registered
BodyThenSend(b, x, boundary) ==
  LET bld == builders[b]
      res == bodyOf(headers[bld.hdr], x, boundary)
      s0 == [NoSend EXCEPT !.init = [method |-> bld.method, hdr |-> bld.hdr, body |-> res.body,
                                     credentials |-> Str("include")]]
  IN RequestOf(s0, [bld EXCEPT !.body = res.body], [headers EXCEPT ![bld.hdr] = res.headers])

\* C17: for every argument x given to send, null, '', 0 and false among them,
\* and every state of the builder, send(x) dispatches the request that body(x)
\* followed by send() dispatches.
C17_SendWithPayloadIsBodyThenSend ==
  [][\A b \in DOMAIN sends, x \in BodyPayloads, bd \in BodyBoundaries :
       send(b, x, bd) /\ arrays[HookArrayOf(builders[b])] = <<>>
         => sends'[b].pc = "fetch" /\ sends'[b].req = BodyThenSend(b, x, bd)]_vars

\* C18: body(x) with a JSON-able x stores the JSON text of x as the body of
\* the request, whether or not a Content-Type header is there already.
C18_JsonableBodyStoredAsJsonText ==
  [][\A b \in DOMAIN builders, x \in BodyPayloads, bd \in BodyBoundaries :
       body(b, x, bd) /\ JsonPath(x) => builders'[b].body = JSONstringify(x)]_vars

\* C20: on a builder of a client without a Content-Type default, with no
\* header() call made, after a body() call with a Blob array or a JSON-able
\* payload the Content-Type header names the encoding of the stored body:
\* application/json for a JSON-able payload, multipart/related with the
\* boundary of the stored body for a Blob array.
C20_ContentTypeMatchesBody ==
  [][\A b \in DOMAIN builders, x \in BodyPayloads, bd \in BodyBoundaries :
       body(b, x, bd) /\ ~HeadersHas(defaults, "Content-Type")
         => LET ct == HeadersGet(headers'[builders'[b].hdr], "Content-Type") IN
            /\ JsonPath(x) => ct = Str("application/json")
            /\ isBlobArray(x) => /\ builders'[b].body.t = "multipart"
                                 /\ ct = Str(MultipartType(builders'[b].body.v))]_vars

====
